---- MODULE Spec2Model ----
(***************************************************************************)
(* PDF tracker (src/server.js): an express server keeping one JSON         *)
(* document, data/tracking.json, that maps a tracking identifier to a      *)
(* TrackingRecord, and a directory uploads/ of stored PDF files.  Every    *)
(* handler is synchronous: it reads the whole document, changes it and     *)
(* writes it back before it answers.                                       *)
(***************************************************************************)
EXTENDS Integers, Sequences, FiniteSets, TLC

VARIABLES
  trackingData,  \* the document data/tracking.json: records in key order
  uploads,       \* the names of the files in uploads/
  issued,        \* the values uuidv4() has returned so far (never twice)
  now,           \* the clock that new Date() reads
  req,           \* the request being answered, op "none" when idle
  res,           \* the answer to req: status and, where used, body
  deleted,       \* history: the records DELETE has removed
  inflight,      \* requests that have arrived and wait for their handler
  answered       \* history: the answers given to requests that waited

vars == <<trackingData, uploads, issued, now, req, res, deleted, inflight,
          answered>>

(***************************************************************************)
(* Bounds of the model.                                                    *)
(***************************************************************************)
\* most access-log entries held by the whole store
MaxLogs == 2
\* latest clock reading
MaxTime == 1
\* largest page count a session summary reports (wide session inputs)
MaxPages == 41

(***************************************************************************)
(* Inputs.                                                                 *)
(***************************************************************************)
\* a uuid "pppppppp-ssss-..." is kept as <<first segment, remaining segments>>
Prefixes == {"aaaaaaaa", "bbbbbbbb"}
\* what uuidv4() can return for a tracking identifier: two of them share
\* their first segment
UUIDs == {<<"aaaaaaaa", "s1">>, <<"aaaaaaaa", "s2">>, <<"bbbbbbbb", "s1">>}
\* what uuidv4() returns for the names of stored files: a value not returned
\* before, whichever it is
FileUUIDs == {<<"cccccccc", "s1">>, <<"cccccccc", "s2">>}
OriginalNames == {"doc.pdf"}
MimeTypes == {"application/pdf", "text/plain"}
IPs == {"10.0.0.1"}
UserAgents == {"ua"}
PageNumbers == {1, 2}
TimesSpent == {7}
\* (pagesViewed, totalPages) pairs a session summary carries
SessionPages == {<<1, 2>>}

(***************************************************************************)
(* IEEE-754 double arithmetic on the values the completion percentage      *)
(* goes through: (pagesViewed / totalPages) * 100, then Math.round.        *)
(* A positive double is [bits, exp]: 53 significand bits, most significant *)
(* first, the first bit having weight 2^exp; zero has no bits.             *)
(***************************************************************************)
MantissaBits == 53

RECURSIVE IntBits(_)
IntBits(n) == IF n = 0 THEN <<>> ELSE Append(IntBits(n \div 2), n % 2)

RECURSIVE BitsValue(_)
BitsValue(b) ==
  IF Len(b) = 0 THEN 0 ELSE 2 * BitsValue(SubSeq(b, 1, Len(b) - 1)) + b[Len(b)]

RECURSIVE FracBits(_, _, _)
\* the next n binary digits of r / d, for 0 <= r < d
FracBits(r, d, n) ==
  IF n = 0 THEN <<>> ELSE <<(2 * r) \div d>> \o FracBits((2 * r) % d, d, n - 1)

RECURSIVE RemAfter(_, _, _)
\* the remainder left after n binary digits of r / d
RemAfter(r, d, n) == IF n = 0 THEN r ELSE RemAfter((2 * r) % d, d, n - 1)

RECURSIVE LeadingZeros(_, _)
\* zero digits before the first one digit of r / d, for 0 < r < d
LeadingZeros(r, d) == IF 2 * r >= d THEN 0 ELSE 1 + LeadingZeros(2 * r, d)

RECURSIVE AnyOne(_)
AnyOne(b) == IF Len(b) = 0 THEN FALSE ELSE (Head(b) = 1 \/ AnyOne(Tail(b)))

RECURSIVE IncBits(_)
\* b + 1 on a bit sequence of fixed length; all ones wraps to all zeros
IncBits(b) ==
  IF Len(b) = 0 THEN <<>>
  ELSE IF b[Len(b)] = 0 THEN Append(SubSeq(b, 1, Len(b) - 1), 1)
       ELSE Append(IncBits(SubSeq(b, 1, Len(b) - 1)), 0)

\* round-to-nearest, ties-to-even, of the exact value raw * 2^.. (plus a
\* nonzero tail when sticky) whose first bit has weight 2^exp
RoundNearestEven(raw, sticky, exp) ==
  LET m     == SubSeq(raw, 1, MantissaBits)
      guard == raw[MantissaBits + 1]
      rest  == sticky \/ AnyOne(SubSeq(raw, MantissaBits + 2, Len(raw)))
      up    == guard = 1 /\ (rest \/ m[MantissaBits] = 1)
      inc   == IncBits(m)
  IN IF ~up THEN [bits |-> m, exp |-> exp]
     ELSE IF AnyOne(inc) THEN [bits |-> inc, exp |-> exp]
     ELSE [bits |-> <<1>> \o SubSeq(inc, 2, MantissaBits), exp |-> exp + 1]

DoubleZero == [bits |-> <<>>, exp |-> 0]

\* the double nearest to a / d, for integers a >= 0, d > 0
DoubleDiv(a, d) ==
  LET q0 == a \div d
      r0 == a % d
  IN IF a = 0 THEN DoubleZero
     ELSE IF q0 > 0
          THEN LET ib == IntBits(q0)
                   n  == MantissaBits + 1 - Len(ib)
               IN RoundNearestEven(ib \o FracBits(r0, d, n),
                                   RemAfter(r0, d, n) # 0, Len(ib) - 1)
          ELSE LET z  == LeadingZeros(r0, d)
                   r1 == RemAfter(r0, d, z)
               IN RoundNearestEven(FracBits(r1, d, MantissaBits + 1),
                                   RemAfter(r1, d, MantissaBits + 1) # 0,
                                   -(z + 1))

\* the w lowest bits of n, most significant first
FixedBits(n, w) == [i \in 1..w |-> (n \div 2^(w - i)) % 2]

\* the bits of b * c for 53 bits b and c < 2^7: b is cut in three limbs, the
\* two low ones of LimbBits bits, so that no product passes 2^31
LimbBits == 18
MulBits(b, c) ==
  LET n  == Len(b)
      lo == BitsValue(SubSeq(b, n - LimbBits + 1, n))
      mi == BitsValue(SubSeq(b, n - 2 * LimbBits + 1, n - LimbBits))
      hi == BitsValue(SubSeq(b, 1, n - 2 * LimbBits))
      pl == lo * c
      pm == mi * c + pl \div 2^LimbBits
      ph == hi * c + pm \div 2^LimbBits
  IN IntBits(ph) \o FixedBits(pm % 2^LimbBits, LimbBits)
                \o FixedBits(pl % 2^LimbBits, LimbBits)

\* the double nearest to x * c, for a small integer c >= 1
DoubleMul(x, c) ==
  IF Len(x.bits) = 0 THEN DoubleZero
  ELSE LET p == MulBits(x.bits, c)
       IN IF Len(p) = MantissaBits THEN [bits |-> p, exp |-> x.exp]
          ELSE RoundNearestEven(p, FALSE, x.exp + (Len(p) - MantissaBits))

\* Math.round: the nearest integer, halves towards +infinity
MathRound(x) ==
  IF Len(x.bits) = 0 \/ x.exp < -1 THEN 0
  ELSE BitsValue(SubSeq(x.bits, 1, x.exp + 1)) + x.bits[x.exp + 2]

\* server.js:676
Completion(pagesViewed, totalPages) ==
  IF totalPages > 0
  THEN MathRound(DoubleMul(DoubleDiv(pagesViewed, totalPages), 100))
  ELSE 0

(***************************************************************************)
(* The record store: data/tracking.json.  The JSON object is kept as the   *)
(* sequence of its values in key (insertion) order; the key of a value is  *)
(* its trackingId.                                                         *)
(***************************************************************************)
\* trackingData[trackingId] is truthy
Has(data, trackingId) == \E i \in DOMAIN data : data[i].trackingId = trackingId

\* trackingData[trackingId]
Lookup(data, trackingId) ==
  data[CHOOSE i \in DOMAIN data : data[i].trackingId = trackingId]

PosOf(data, trackingId) ==
  CHOOSE i \in DOMAIN data : data[i].trackingId = trackingId

RECURSIVE TotalLogs(_)
TotalLogs(data) ==
  IF Len(data) = 0 THEN 0
  ELSE Len(Head(data).accessLogs) + TotalLogs(Tail(data))

\* the document on disk after saveTrackingData(data): JSON.stringify keeps
\* every property of the records and log entries, whose values are strings,
\* numbers, booleans and arrays
saveTrackingData(data) == data

\* the object getTrackingData() returns for the document on disk: JSON.parse
\* gives back exactly the properties that were written
getTrackingData(file) == file

\* trackingId.split('-')[0]
ShortIdOf(trackingId) == trackingId[1]

\* `${uuidv4()}-${file.originalname}`
FileNameOf(uuid, originalname) == <<uuid, originalname>>

\* a filter that lets every file through
fileFilterAny(file) == TRUE

\* multer's fileFilter: TRUE accepts the file, FALSE is cb(new Error(..))
fileFilter(file) == file.mimetype = "application/pdf"

\* counters that leave views out
CountAccessDownloadsOnly(record, action) ==
  IF action = "download"
  THEN [record EXCEPT !.totalDownloads = @ + 1]
  ELSE record

\* counters that take every page turned for a view
CountAccessPagesToo(record, action) ==
  IF action \in {"view", "page_view"}
  THEN [record EXCEPT !.totalViews = @ + 1]
  ELSE IF action = "download"
       THEN [record EXCEPT !.totalDownloads = @ + 1]
       ELSE record

\* the counters after one more entry of the given action
CountAccess(record, action) ==
  IF action = "view"
  THEN [record EXCEPT !.totalViews = @ + 1]
  ELSE IF action = "download"
       THEN [record EXCEPT !.totalDownloads = @ + 1]
       ELSE record

\* a logAccess that drops a page_view whose page the log already holds
logAccessDistinctPages(file, trackingId, action, r, metadata) ==
  IF ~Has(file, trackingId)
  THEN [ok |-> FALSE, file |-> file]
  ELSE LET i == PosOf(file, trackingId)
           logs == file[i].accessLogs
           accessLog == metadata @@
                        [timestamp |-> now, action |-> action,
                         ip |-> r.ip, userAgent |-> r.userAgent]
       IN IF /\ action = "page_view"
             /\ \E k \in DOMAIN logs :
                  logs[k].action = "page_view" /\ logs[k].page = metadata.page
          THEN [ok |-> TRUE, file |-> file]
          ELSE [ok |-> TRUE,
                file |-> [file EXCEPT ![i] =
                            [@ EXCEPT !.accessLogs = Append(@, accessLog),
                                      !.totalViews =
                                        IF action = "view" THEN @ + 1 ELSE @,
                                      !.totalDownloads =
                                        IF action = "download" THEN @ + 1
                                        ELSE @]]]

\* a logAccess that returns without writing the document back
logAccessNoSave(file, trackingId, action, r, metadata) ==
  [ok |-> Has(getTrackingData(file), trackingId), file |-> file]

\* logAccess(trackingId, action, req, metadata): its return value and the
\* document it leaves on disk
logAccess(file, trackingId, action, r, metadata) ==
  LET data == getTrackingData(file)
  IN IF ~Has(data, trackingId)
     THEN [ok |-> FALSE, file |-> file]
     ELSE LET accessLog == metadata @@
                           [timestamp |-> now, action |-> action,
                            ip |-> r.ip, userAgent |-> r.userAgent]
              i == PosOf(data, trackingId)
              pushed == [data[i] EXCEPT !.accessLogs = Append(@, accessLog)]
          IN [ok |-> TRUE,
              file |-> saveTrackingData(
                         [data EXCEPT ![i] = CountAccess(pushed, action)])]

\* no metadata
NoMetadata == <<>>

(***************************************************************************)
(* Handlers as functions of the document on disk.                          *)
(***************************************************************************)
\* a record that counts the upload itself as a view
NewRecordCounted(trackingId, file, fileName) ==
  [trackingId    |-> trackingId,
   shortId       |-> trackingId[1],
   originalName  |-> file.originalname,
   fileName      |-> fileName,
   uploadedAt    |-> now,
   accessLogs    |-> <<>>,
   totalViews    |-> 1,
   totalDownloads |-> 0,
   allowDownload |-> TRUE,
   viewerUrl     |-> <<"/v/", trackingId[1]>>]

\* the record the upload handler creates (server.js:98-109)
NewRecord(trackingId, file, fileName) ==
  [trackingId    |-> trackingId,
   shortId       |-> ShortIdOf(trackingId),
   originalName  |-> file.originalname,
   fileName      |-> fileName,
   uploadedAt    |-> now,
   accessLogs    |-> <<>>,
   totalViews    |-> 0,
   totalDownloads |-> 0,
   allowDownload |-> TRUE,
   viewerUrl     |-> <<"/v/", ShortIdOf(trackingId)>>]

\* an upload that writes a document holding its own record only
PutRecordAlone(data, record) == <<record>>

\* trackingData[trackingId] = {...}: an existing key keeps its place
PutRecord(data, record) ==
  IF Has(data, record.trackingId)
  THEN [data EXCEPT ![PosOf(data, record.trackingId)] = record]
  ELSE Append(data, record)

\* Object.entries(trackingData).find(([_, data]) => data.shortId === shortId):
\* the position of the first match, 0 when there is none
FindByShortId(data, shortId) ==
  IF \E i \in DOMAIN data : data[i].shortId = shortId
  THEN CHOOSE i \in DOMAIN data :
         /\ data[i].shortId = shortId
         /\ \A j \in 1..(i - 1) : data[j].shortId # shortId
  ELSE 0

\* the entry track-session writes over lastLog (server.js:672-676)
SessionSummary(lastLog, timeSpent, pagesViewed, totalPages) ==
  [timeSpent   |-> timeSpent,
   pagesViewed |-> pagesViewed,
   totalPages  |-> totalPages,
   completion  |-> Completion(pagesViewed, totalPages)] @@ lastLog

\* a track-session that pushes the summary as an entry of its own
trackSessionAppend(file, trackingId, timeSpent, pagesViewed, totalPages) ==
  IF Has(file, trackingId) /\ Len(Lookup(file, trackingId).accessLogs) > 0
  THEN LET i == PosOf(file, trackingId)
           n == Len(file[i].accessLogs)
           lastLog == file[i].accessLogs[n]
       IN IF lastLog.action = "view"
          THEN [file EXCEPT ![i].accessLogs =
                  Append(@, SessionSummary(lastLog, timeSpent, pagesViewed,
                                           totalPages))]
          ELSE file
  ELSE file

\* a track-session that adds the time reported to the time already stored
trackSessionAccumulate(file, trackingId, timeSpent, pagesViewed, totalPages) ==
  IF Has(file, trackingId) /\ Len(Lookup(file, trackingId).accessLogs) > 0
  THEN LET i == PosOf(file, trackingId)
           n == Len(file[i].accessLogs)
           lastLog == file[i].accessLogs[n]
           spent == IF "timeSpent" \in DOMAIN lastLog
                    THEN lastLog.timeSpent + timeSpent
                    ELSE timeSpent
       IN IF lastLog.action = "view"
          THEN [file EXCEPT ![i].accessLogs[n] =
                  SessionSummary(lastLog, spent, pagesViewed, totalPages)]
          ELSE file
  ELSE file

\* a track-session that stamps the entry with the time of the summary
trackSessionRestamp(file, trackingId, timeSpent, pagesViewed, totalPages) ==
  IF Has(file, trackingId) /\ Len(Lookup(file, trackingId).accessLogs) > 0
  THEN LET i == PosOf(file, trackingId)
           n == Len(file[i].accessLogs)
           lastLog == file[i].accessLogs[n]
       IN IF lastLog.action = "view"
          THEN [file EXCEPT ![i].accessLogs[n] =
                  [SessionSummary(lastLog, timeSpent, pagesViewed,
                                  totalPages) EXCEPT !.timestamp = now]]
          ELSE file
  ELSE file

\* the document on disk after the track-session handler
trackSession(file, trackingId, timeSpent, pagesViewed, totalPages) ==
  LET data == getTrackingData(file)
  IN IF Has(data, trackingId) /\ Len(Lookup(data, trackingId).accessLogs) > 0
     THEN LET i == PosOf(data, trackingId)
              n == Len(data[i].accessLogs)
              lastLog == data[i].accessLogs[n]
          IN IF lastLog.action = "view"
             THEN saveTrackingData(
                    [data EXCEPT ![i].accessLogs[n] =
                       SessionSummary(lastLog, timeSpent, pagesViewed,
                                      totalPages)])
             ELSE file
     ELSE file

\* what GET /api/stats/:trackingId answers for the document on disk
statsResponse(file, trackingId) ==
  LET data == getTrackingData(file)
  IN IF ~Has(data, trackingId)
     THEN [status |-> 404]
     ELSE [status |-> 200, body |-> Lookup(data, trackingId)]

\* a delete that drops every record with the short id of the tracking id
RemoveRecordByShortId(data, trackingId) ==
  LET Kept(record) == record.shortId # trackingId[1]
  IN SelectSeq(data, Kept)

\* delete trackingData[trackingId]
RemoveRecord(data, trackingId) ==
  LET i == PosOf(data, trackingId)
  IN SubSeq(data, 1, i - 1) \o SubSeq(data, i + 1, Len(data))

\* the status of get-pdf and download for the document and directory given
\* (server.js:613-622, 635-644)
ServeStatus(data, dir, trackingId) ==
  IF ~Has(data, trackingId) THEN 404
  ELSE IF Lookup(data, trackingId).fileName \notin dir THEN 404
  ELSE 200

(***************************************************************************)
(* The server.                                                             *)
(***************************************************************************)
\* uploads/ and data/ exist and are empty, no request was handled yet
Init ==
  /\ trackingData = <<>>
  /\ uploads = {}
  /\ issued = {}
  /\ now = 0
  /\ req = [op |-> "none"]
  /\ res = [status |-> 0]
  /\ deleted = {}
  /\ inflight = {}
  /\ answered = <<>>

\* room for one more access-log entry
Room == TotalLogs(trackingData) < MaxLogs

\* no request is being answered: the handlers are synchronous, so the server
\* takes up a request only when the one before has been answered
Idle == req.op = "none"

\* the response has gone out
Close ==
  /\ ~Idle
  /\ req' = [op |-> "none"]
  /\ res' = [status |-> 0]
  /\ UNCHANGED <<trackingData, uploads, issued, now, deleted,
                 inflight, answered>>

Requester == [ip : IPs, userAgent : UserAgents]

\* time passes between two requests
Tick ==
  /\ Idle
  /\ now < MaxTime
  /\ now' = now + 1
  /\ UNCHANGED <<trackingData, uploads, issued, req, res, deleted,
                 inflight, answered>>

\* POST /api/upload without a file part: req.file is undefined
UploadNoFile ==
  /\ Idle
  /\ req' = [op |-> "upload", hasFile |-> FALSE]
  /\ res' = [status |-> 400]
  /\ UNCHANGED <<trackingData, uploads, issued, now, deleted,
                 inflight, answered>>

\* POST /api/upload with a file the fileFilter turns down: multer passes the
\* error on before the storage engine or the handler runs
UploadRejected ==
  \E file \in [mimetype : MimeTypes, originalname : OriginalNames] :
    /\ Idle
    /\ ~fileFilter(file)
    /\ req' = [op |-> "upload", hasFile |-> TRUE, file |-> file]
    /\ res' = [status |-> 500]
    /\ UNCHANGED <<trackingData, uploads, issued, now, deleted,
                   inflight, answered>>

\* POST /api/upload with an accepted file: the storage engine names and
\* stores the file, then the handler creates the record
Upload ==
  \E file \in [mimetype : MimeTypes, originalname : OriginalNames] :
    /\ Idle
    /\ fileFilter(file)
    /\ FileUUIDs \ issued # {}
    /\ \E trackingId \in UUIDs \ issued :
           LET fileUuid == CHOOSE u \in FileUUIDs \ issued : TRUE
               fileName == FileNameOf(fileUuid, file.originalname)
               record == NewRecord(trackingId, file, fileName)
           IN /\ issued' = issued \cup {fileUuid, trackingId}
              /\ uploads' = uploads \cup {fileName}
              /\ trackingData' =
                   saveTrackingData(
                     PutRecord(getTrackingData(trackingData), record))
              /\ req' = [op |-> "upload", hasFile |-> TRUE, file |-> file]
              /\ res' = [status |-> 200,
                         body |-> [trackingId |-> trackingId,
                                   shortId |-> ShortIdOf(trackingId)]]
    /\ UNCHANGED <<now, deleted, inflight, answered>>

\* GET /v/:shortId
View ==
  \E shortId \in Prefixes, r \in Requester :
    LET data == getTrackingData(trackingData)
        i == FindByShortId(data, shortId)
    IN /\ Idle
       /\ req' = [op |-> "view", shortId |-> shortId]
       /\ IF i = 0
          THEN /\ res' = [status |-> 404]
               /\ UNCHANGED trackingData
          ELSE /\ Room
               /\ trackingData' =
                    logAccess(trackingData, data[i].trackingId, "view", r,
                              NoMetadata).file
               /\ res' = [status |-> 200,
                          body |-> [trackingId |-> data[i].trackingId]]
       /\ UNCHANGED <<uploads, issued, now, deleted, inflight, answered>>

\* GET /get-pdf/:trackingId
GetPdf ==
  \E trackingId \in UUIDs :
    /\ Idle
    /\ req' = [op |-> "get-pdf", trackingId |-> trackingId]
    /\ res' = [status |->
                 ServeStatus(getTrackingData(trackingData), uploads,
                             trackingId)]
    /\ UNCHANGED <<trackingData, uploads, issued, now, deleted,
                   inflight, answered>>

\* GET /download/:trackingId
Download ==
  \E trackingId \in UUIDs :
    /\ Idle
    /\ req' = [op |-> "download", trackingId |-> trackingId]
    /\ res' = [status |->
                 ServeStatus(getTrackingData(trackingData), uploads,
                             trackingId)]
    /\ UNCHANGED <<trackingData, uploads, issued, now, deleted,
                   inflight, answered>>

\* POST /api/log-download
LogDownload ==
  \E trackingId \in UUIDs, r \in Requester :
    /\ Idle
    /\ Has(trackingData, trackingId) => Room
    /\ trackingData' =
         logAccess(trackingData, trackingId, "download", r, NoMetadata).file
    /\ req' = [op |-> "log-download", trackingId |-> trackingId]
    /\ res' = [status |-> 200]
    /\ UNCHANGED <<uploads, issued, now, deleted, inflight, answered>>

\* POST /api/track-page
TrackPage ==
  \E trackingId \in UUIDs, page \in PageNumbers, r \in Requester :
    /\ Idle
    /\ Has(trackingData, trackingId) => Room
    /\ trackingData' =
         logAccess(trackingData, trackingId, "page_view", r,
                   [page |-> page]).file
    /\ req' = [op |-> "track-page", trackingId |-> trackingId,
               page |-> page]
    /\ res' = [status |-> 200]
    /\ UNCHANGED <<uploads, issued, now, deleted, inflight, answered>>

\* POST /api/track-session with the given body
TrackSessionWith(trackingId, timeSpent, pagesViewed, totalPages) ==
  /\ Idle
  /\ trackingData' =
       trackSession(trackingData, trackingId, timeSpent, pagesViewed,
                    totalPages)
  /\ req' = [op |-> "track-session", trackingId |-> trackingId,
             timeSpent |-> timeSpent, pagesViewed |-> pagesViewed,
             totalPages |-> totalPages]
  /\ res' = [status |-> 200]
  /\ UNCHANGED <<uploads, issued, now, deleted, inflight, answered>>

\* POST /api/track-session
TrackSession ==
  \E trackingId \in UUIDs, timeSpent \in TimesSpent, p \in SessionPages :
    TrackSessionWith(trackingId, timeSpent, p[1], p[2])

\* GET /api/stats/:trackingId
Stats ==
  \E trackingId \in UUIDs :
    /\ Idle
    /\ req' = [op |-> "stats", trackingId |-> trackingId]
    /\ res' = statsResponse(trackingData, trackingId)
    /\ UNCHANGED <<trackingData, uploads, issued, now, deleted,
                   inflight, answered>>

\* GET /api/stats
StatsAll ==
  /\ Idle
  /\ req' = [op |-> "stats-all"]
  /\ res' = [status |-> 200, body |-> getTrackingData(trackingData)]
  /\ UNCHANGED <<trackingData, uploads, issued, now, deleted,
                 inflight, answered>>

\* DELETE /api/delete/:trackingId
Delete ==
  \E trackingId \in UUIDs :
    LET data == getTrackingData(trackingData)
    IN /\ Idle
       /\ req' = [op |-> "delete", trackingId |-> trackingId]
       /\ IF ~Has(data, trackingId)
          THEN /\ res' = [status |-> 404]
               /\ UNCHANGED <<trackingData, uploads, deleted>>
          ELSE LET record == Lookup(data, trackingId)
               IN /\ uploads' = uploads \ {record.fileName}
                  /\ trackingData' =
                       saveTrackingData(RemoveRecord(data, trackingId))
                  /\ deleted' = deleted \cup
                       {[trackingId |-> record.trackingId,
                         shortId |-> record.shortId,
                         fileName |-> record.fileName]}
                  /\ res' = [status |-> 200]
       /\ UNCHANGED <<issued, now, inflight, answered>>

Next ==
  \/ Tick
  \/ UploadNoFile
  \/ UploadRejected
  \/ Upload
  \/ View
  \/ GetPdf
  \/ Download
  \/ LogDownload
  \/ TrackPage
  \/ TrackSession
  \/ Stats
  \/ StatsAll
  \/ Delete
  \/ Close

Spec == Init /\ [][Next]_vars

(***************************************************************************)
(* Session summaries over a wide range of page counts: one upload, one     *)
(* visit, then the summary of that visit.                                  *)
(***************************************************************************)
\* the last entry of the record's log is a view without a summary yet
AwaitsSummary(data, trackingId) ==
  /\ Has(data, trackingId)
  /\ LET logs == Lookup(data, trackingId).accessLogs
     IN /\ Len(logs) > 0
        /\ logs[Len(logs)].action = "view"
        /\ "completion" \notin DOMAIN logs[Len(logs)]

\* POST /api/track-session at the end of a visit, any page counts
TrackSessionWide ==
  \E trackingId \in UUIDs :
    /\ AwaitsSummary(trackingData, trackingId)
    /\ \E timeSpent \in TimesSpent,
          pagesViewed \in 0..MaxPages, totalPages \in 0..MaxPages :
         TrackSessionWith(trackingId, timeSpent, pagesViewed, totalPages)

SessionNext ==
  \/ (Len(trackingData) = 0 /\ Upload)
  \/ (TotalLogs(trackingData) = 0 /\ View)
  \/ TrackSessionWide
  \/ Close

SessionSpec == Init /\ [][SessionNext]_vars

(***************************************************************************)
(* Requests in flight together.  Node runs one callback at a time and the  *)
(* handlers of server.js do all their file work with readFileSync and      *)
(* writeFileSync, without an await: a handler, once started, ends before   *)
(* any other callback runs.  Requests overlap only in that several have    *)
(* arrived and wait, and that they are handled in any order.  An upload    *)
(* has two callbacks: the storage engine, which names and stores the file, *)
(* and later the handler.                                                  *)
(***************************************************************************)
\* how many requests arrive in all
MaxRequests == 3

\* the requests that arrived so far
Arrived == Len(answered) + Cardinality(inflight)

\* POST /api/upload arrives with an accepted file: the storage engine names
\* the file and stores it; the handler is still to run
StoreUpload ==
  \E file \in [mimetype : MimeTypes, originalname : OriginalNames] :
    /\ Arrived < MaxRequests
    /\ fileFilter(file)
    /\ FileUUIDs \ issued # {}
    /\ LET fileUuid == CHOOSE u \in FileUUIDs \ issued : TRUE
           fileName == FileNameOf(fileUuid, file.originalname)
       IN /\ issued' = issued \cup {fileUuid}
          /\ uploads' = uploads \cup {fileName}
          /\ inflight' = inflight \cup
               {[n |-> Arrived + 1, op |-> "upload", file |-> file,
                 fileName |-> fileName]}
    /\ UNCHANGED <<trackingData, now, req, res, deleted, answered>>

\* the upload handler runs for an upload whose file is stored
HandleUpload ==
  \E q \in inflight :
    /\ q.op = "upload"
    /\ \E trackingId \in UUIDs \ issued :
         LET record == NewRecord(trackingId, q.file, q.fileName)
         IN /\ issued' = issued \cup {trackingId}
            /\ trackingData' =
                 saveTrackingData(
                   PutRecord(getTrackingData(trackingData), record))
            /\ answered' = Append(answered,
                 [n |-> q.n, op |-> "upload", status |-> 200,
                  trackingId |-> trackingId, fileName |-> q.fileName])
    /\ inflight' = inflight \ {q}
    /\ UNCHANGED <<uploads, now, req, res, deleted>>

\* GET /v/:shortId arrives
ArriveView ==
  \E shortId \in Prefixes, r \in Requester :
    /\ Arrived < MaxRequests
    /\ inflight' = inflight \cup
         {[n |-> Arrived + 1, op |-> "view", shortId |-> shortId, r |-> r]}
    /\ UNCHANGED <<trackingData, uploads, issued, now, req, res, deleted,
                   answered>>

\* the viewer handler runs
HandleView ==
  \E q \in inflight :
    LET data == getTrackingData(trackingData)
        i == FindByShortId(data, q.shortId)
    IN /\ q.op = "view"
       /\ IF i = 0
          THEN /\ answered' = Append(answered,
                    [n |-> q.n, op |-> "view", status |-> 404])
               /\ UNCHANGED trackingData
          ELSE /\ trackingData' =
                    logAccess(trackingData, data[i].trackingId, "view", q.r,
                              NoMetadata).file
               /\ answered' = Append(answered,
                    [n |-> q.n, op |-> "view", status |-> 200,
                     trackingId |-> data[i].trackingId])
       /\ inflight' = inflight \ {q}
       /\ UNCHANGED <<uploads, issued, now, req, res, deleted>>

\* POST /api/log-download arrives
ArriveLogDownload ==
  \E trackingId \in UUIDs, r \in Requester :
    /\ Arrived < MaxRequests
    /\ inflight' = inflight \cup
         {[n |-> Arrived + 1, op |-> "log-download",
           trackingId |-> trackingId, r |-> r]}
    /\ UNCHANGED <<trackingData, uploads, issued, now, req, res, deleted,
                   answered>>

\* the log-download handler runs
HandleLogDownload ==
  \E q \in inflight :
    /\ q.op = "log-download"
    /\ LET logged == logAccess(trackingData, q.trackingId, "download", q.r,
                               NoMetadata)
       IN /\ trackingData' = logged.file
          /\ answered' = Append(answered,
               [n |-> q.n, op |-> "log-download", status |-> 200,
                trackingId |-> q.trackingId, logged |-> logged.ok])
    /\ inflight' = inflight \ {q}
    /\ UNCHANGED <<uploads, issued, now, req, res, deleted>>

ConcNext ==
  \/ Tick
  \/ StoreUpload
  \/ HandleUpload
  \/ ArriveView
  \/ HandleView
  \/ ArriveLogDownload
  \/ HandleLogDownload

ConcSpec == Init /\ [][ConcNext]_vars

(***************************************************************************)
(* Properties.                                                             *)
(***************************************************************************)
SummaryFields == {"timeSpent", "pagesViewed", "totalPages", "completion"}

\* this step is the handling of a request of the given kind
Handled(op) == Idle /\ req'.op = op

\* the entries of a log with the given action
CountAction(logs, action) ==
  Cardinality({k \in DOMAIN logs : logs[k].action = action})

\* C1: a viewer request whose short identifier matches a stored record is
\* answered with the page of a record with that short identifier; that
\* record's totalViews goes up by exactly one and exactly one "view" entry
\* is added at the end of its log.
ViewCountsOnce ==
  [][(/\ Handled("view")
      /\ \E i \in DOMAIN trackingData :
           trackingData[i].shortId = req'.shortId)
     => /\ res'.status = 200
        /\ Has(trackingData, res'.body.trackingId)
        /\ Has(trackingData', res'.body.trackingId)
        /\ LET before == Lookup(trackingData, res'.body.trackingId)
               after  == Lookup(trackingData', res'.body.trackingId)
           IN /\ before.shortId = req'.shortId
              /\ after.totalViews = before.totalViews + 1
              /\ Len(after.accessLogs) = Len(before.accessLogs) + 1
              /\ SubSeq(after.accessLogs, 1, Len(before.accessLogs))
                   = before.accessLogs
              /\ after.accessLogs[Len(after.accessLogs)].action = "view"
              /\ CountAction(after.accessLogs, "view")
                   = CountAction(before.accessLogs, "view") + 1]_vars

\* two visits and nothing else on a record: totalViews = 2, two view entries
ViewedTwice ==
  /\ req.op = "view"
  /\ res.status = 200
  /\ LET record == Lookup(trackingData, res.body.trackingId)
     IN /\ record.totalViews = 2
        /\ Len(record.accessLogs) = 2
        /\ CountAction(record.accessLogs, "view") = 2

\* C2: when a successful upload has just been answered with trackingId T,
\* GET /api/stats/T answers the record of T with totalViews = 0,
\* totalDownloads = 0 and an empty accessLogs.
FreshRecordIsEmpty ==
  (req.op = "upload" /\ res.status = 200) =>
    LET answer == statsResponse(trackingData, res.body.trackingId)
    IN /\ answer.status = 200
       /\ answer.body.trackingId = res.body.trackingId
       /\ answer.body.totalViews = 0
       /\ answer.body.totalDownloads = 0
       /\ answer.body.accessLogs = <<>>

\* a second upload was answered while the store holds a used record
FreshRecordBesideUsed ==
  /\ req.op = "upload"
  /\ res.status = 200
  /\ Len(trackingData) = 2
  /\ TotalLogs(trackingData) > 0
  /\ trackingData[2].trackingId = res.body.trackingId

\* C3: an upload whose declared content type is not application/pdf is
\* answered with an error, and neither the record store nor the stored
\* files change.
NonPdfRejected ==
  [][(/\ Handled("upload")
      /\ req'.hasFile
      /\ req'.file.mimetype # "application/pdf")
     => /\ res'.status >= 400
        /\ trackingData' = trackingData
        /\ uploads' = uploads]_vars

\* a non-PDF upload was turned down by a server that holds a record
NonPdfTurnedDown ==
  /\ req.op = "upload"
  /\ req.hasFile
  /\ req.file.mimetype = "text/plain"
  /\ res.status = 500
  /\ Len(trackingData) > 0
  /\ uploads # {}

\* the position of the last "view" entry of a log, 0 when it has none
LastViewPos(logs) ==
  IF \E k \in DOMAIN logs : logs[k].action = "view"
  THEN CHOOSE k \in DOMAIN logs :
         /\ logs[k].action = "view"
         /\ \A m \in (k + 1)..Len(logs) : logs[m].action # "view"
  ELSE 0

\* C4: a track-session for a known record whose log has a "view" entry
\* leaves the summary it carries on the most recent "view" entry, also when
\* page_view or download entries follow that entry.
SummaryOnLastView ==
  [][(/\ Handled("track-session")
      /\ Has(trackingData, req'.trackingId)
      /\ LastViewPos(Lookup(trackingData, req'.trackingId).accessLogs) > 0)
     => LET logs == Lookup(trackingData', req'.trackingId).accessLogs
            entry == logs[LastViewPos(logs)]
        IN /\ SummaryFields \subseteq DOMAIN entry
           /\ entry.timeSpent = req'.timeSpent
           /\ entry.pagesViewed = req'.pagesViewed
           /\ entry.totalPages = req'.totalPages]_vars

\* C5: track-session never appends: the number of records, every record's
\* identifier, counters and log length, and every entry's action are the
\* same after the call as before; entries other than the last are untouched
\* and the last one changes in its summary fields only.
SessionNeverAppends ==
  [][Handled("track-session")
     => /\ Len(trackingData') = Len(trackingData)
        /\ uploads' = uploads
        /\ \A i \in DOMAIN trackingData :
             LET before == trackingData[i]
                 after  == trackingData'[i]
                 n      == Len(before.accessLogs)
             IN /\ [after EXCEPT !.accessLogs = <<>>]
                     = [before EXCEPT !.accessLogs = <<>>]
                /\ Len(after.accessLogs) = n
                /\ \A k \in 1..n :
                     /\ after.accessLogs[k].action
                          = before.accessLogs[k].action
                     /\ k < n => after.accessLogs[k] = before.accessLogs[k]
                /\ n > 0 =>
                     /\ DOMAIN after.accessLogs[n] \subseteq
                          DOMAIN before.accessLogs[n] \cup SummaryFields
                     /\ \A f \in DOMAIN before.accessLogs[n] \ SummaryFields :
                          after.accessLogs[n][f] = before.accessLogs[n][f]]_vars

\* a track-session has written its summary on the last entry of a log
SummaryWritten ==
  /\ req.op = "track-session"
  /\ Has(trackingData, req.trackingId)
  /\ LET logs == Lookup(trackingData, req.trackingId).accessLogs
     IN /\ Len(logs) = 2
        /\ SummaryFields \subseteq DOMAIN logs[2]
        /\ logs[2].pagesViewed = req.pagesViewed

\* floor((200 * pagesViewed + totalPages) / (2 * totalPages)): the
\* percentage rounded to the nearest integer, halves up
RoundedPercentage(pagesViewed, totalPages) ==
  IF totalPages > 0
  THEN (200 * pagesViewed + totalPages) \div (2 * totalPages)
  ELSE 0

\* C6: every summary in the store has completion equal to the percentage
\* pagesViewed / totalPages rounded to the nearest integer, halves up, and 0
\* when totalPages is 0; a track-session that writes stores timeSpent,
\* pagesViewed and totalPages as received.
CompletionIsRoundedPercentage ==
  /\ \A i \in DOMAIN trackingData :
       \A k \in DOMAIN trackingData[i].accessLogs :
         LET entry == trackingData[i].accessLogs[k]
         IN "completion" \in DOMAIN entry =>
              entry.completion =
                RoundedPercentage(entry.pagesViewed, entry.totalPages)
  /\ (req.op = "track-session" /\ Has(trackingData, req.trackingId)) =>
       LET logs == Lookup(trackingData, req.trackingId).accessLogs
       IN (Len(logs) > 0 /\ "completion" \in DOMAIN logs[Len(logs)]) =>
            /\ logs[Len(logs)].timeSpent = req.timeSpent
            /\ logs[Len(logs)].pagesViewed = req.pagesViewed
            /\ logs[Len(logs)].totalPages = req.totalPages

\* C7: a track-page for a known record appends exactly one "page_view"
\* entry carrying the page of the request, whether or not the log already
\* has that page, and changes neither totalViews nor totalDownloads.
TrackPageAppends ==
  [][(/\ Handled("track-page")
      /\ Has(trackingData, req'.trackingId))
     => /\ Has(trackingData', req'.trackingId)
        /\ LET before == Lookup(trackingData, req'.trackingId)
               after  == Lookup(trackingData', req'.trackingId)
               n      == Len(before.accessLogs)
           IN /\ Len(after.accessLogs) = n + 1
              /\ SubSeq(after.accessLogs, 1, n) = before.accessLogs
              /\ after.accessLogs[n + 1].action = "page_view"
              /\ after.accessLogs[n + 1].page = req'.page
              /\ after.totalViews = before.totalViews
              /\ after.totalDownloads = before.totalDownloads]_vars

\* the same page was tracked twice and the log holds both entries
SamePageTwice ==
  /\ req.op = "track-page"
  /\ Has(trackingData, req.trackingId)
  /\ LET logs == Lookup(trackingData, req.trackingId).accessLogs
     IN /\ Len(logs) = 2
        /\ logs[1].action = "page_view"
        /\ logs[2].action = "page_view"
        /\ logs[1].page = req.page
        /\ logs[2].page = req.page

\* C8: once a record is deleted it is out of the store and its file out of
\* uploads, and stats, download, get-pdf and the viewer link of that record
\* answer 404 from then on.
DeletedStaysGone ==
  \A d \in deleted :
    /\ ~Has(trackingData, d.trackingId)
    /\ d.fileName \notin uploads
    /\ (/\ req.op \in {"stats", "download", "get-pdf"}
        /\ req.trackingId = d.trackingId) => res.status = 404
    /\ (req.op = "view" /\ req.shortId = d.shortId) => res.status = 404

\* C9: stats, download, log-download and delete answer 404 when the
\* identifier they are given is not in the store.
UnknownIdIsNotFound ==
  [][(/\ \E op \in {"stats", "download", "log-download", "delete"} :
           Handled(op)
      /\ ~Has(trackingData, req'.trackingId))
     => res'.status = 404]_vars

\* C10: no two records of the store have the same shortId.
ShortIdsUnique ==
  \A i, j \in DOMAIN trackingData :
    i # j => trackingData[i].shortId # trackingData[j].shortId

\* the answers, in the order given, to requests that logged an access of the
\* given kind to the record
AnsweredFor(trackingId, op) ==
  {k \in DOMAIN answered :
     /\ answered[k].op = op
     /\ answered[k].status = 200
     /\ answered[k].trackingId = trackingId
     /\ (op = "log-download" => answered[k].logged)}

\* two answers to requests of the given kind for the record, given in the
\* reverse of the order the requests arrived in: both requests were waiting
\* at the same time
Overlapped(trackingId, op) ==
  \E i, j \in AnsweredFor(trackingId, op) :
    i < j /\ answered[i].n > answered[j].n

UploadAnswers ==
  {k \in DOMAIN answered :
     answered[k].op = "upload" /\ answered[k].status = 200}

\* C12: uploads handled together, in any order of the steps of their
\* handling, each have a record of their own: the tracking ids answered are
\* pairwise distinct, each is the key of a stored record that names the file
\* of that upload, and the store holds exactly one record for each upload
\* that succeeded.
EachUploadItsRecord ==
  /\ \A k \in UploadAnswers :
       /\ Has(trackingData, answered[k].trackingId)
       /\ Lookup(trackingData, answered[k].trackingId).fileName
            = answered[k].fileName
       /\ answered[k].fileName \in uploads
  /\ \A k, l \in UploadAnswers :
       k # l => answered[k].trackingId # answered[l].trackingId
  /\ \A i, j \in DOMAIN trackingData :
       i # j => trackingData[i].trackingId # trackingData[j].trackingId
  /\ Len(trackingData) = Cardinality(UploadAnswers)

\* two uploads whose files were stored before either handler ran, answered
\* in the reverse of the order they arrived in, and both records are there
OverlappingUploadsBothStored ==
  /\ \E k, l \in UploadAnswers :
       k < l /\ answered[k].n > answered[l].n
  /\ Len(trackingData) = 2

\* the fields logAccess gives every entry
BaseFields == {"timestamp", "action", "ip", "userAgent"}

\* a "view" entry as logAccess wrote it, with or without a session summary
WellFormedView(entry) ==
  \/ DOMAIN entry = BaseFields
  \/ DOMAIN entry = BaseFields \cup SummaryFields

\* C13: every track-session request is answered with success, whether or
\* not it finds a record, a log entry or a last entry that is a view; when
\* it writes the store, the same request applied once more leaves the store
\* as it is after the first time (a request that writes nothing leaves it
\* so again), and every "view" entry of the store, summarised or not, is
\* well formed.
TrackSessionIdempotent ==
  [][Handled("track-session")
     => /\ res'.status = 200
        /\ trackingData' # trackingData
           => /\ trackSession(trackingData', req'.trackingId,
                              req'.timeSpent, req'.pagesViewed,
                              req'.totalPages) = trackingData'
              /\ \A i \in DOMAIN trackingData' :
                   \A k \in DOMAIN trackingData'[i].accessLogs :
                     trackingData'[i].accessLogs[k].action = "view"
                     => WellFormedView(trackingData'[i].accessLogs[k])]_vars

\* a track-session was handled for a record that has an earlier visit
\* without a summary and a last visit with one
SummaryBesideBareView ==
  /\ req.op = "track-session"
  /\ res.status = 200
  /\ Has(trackingData, req.trackingId)
  /\ LET logs == Lookup(trackingData, req.trackingId).accessLogs
     IN /\ Len(logs) = 2
        /\ logs[1].action = "view"
        /\ DOMAIN logs[1] = BaseFields
        /\ logs[2].action = "view"
        /\ logs[2].timeSpent = req.timeSpent
        /\ logs[2].completion = Completion(req.pagesViewed, req.totalPages)

\* C14: a record's log only grows at its end for as long as the record is
\* stored: over every step that writes the store its length does not go down and every entry it
\* had keeps its position, action, timestamp, ip and user agent; and a
\* record leaves the store only by a DELETE of its tracking id.
AccessLogsAppendOnly ==
  [][trackingData' # trackingData
     => \A i \in DOMAIN trackingData :
       LET trackingId == trackingData[i].trackingId
           before == trackingData[i].accessLogs
       IN IF Has(trackingData', trackingId)
          THEN LET after == Lookup(trackingData', trackingId).accessLogs
               IN /\ Len(after) >= Len(before)
                  /\ \A k \in DOMAIN before :
                       /\ after[k].action = before[k].action
                       /\ after[k].timestamp = before[k].timestamp
                       /\ after[k].ip = before[k].ip
                       /\ after[k].userAgent = before[k].userAgent
          ELSE Handled("delete") /\ req'.trackingId = trackingId]_vars

\* a visit got its summary at a later time than it began, and a download was
\* logged after it
LogGrewAfterSummary ==
  \E i \in DOMAIN trackingData :
    LET logs == trackingData[i].accessLogs
    IN /\ Len(logs) = 2
       /\ logs[1].action = "view"
       /\ "completion" \in DOMAIN logs[1]
       /\ logs[1].timestamp = 0
       /\ logs[2].action = "download"
       /\ logs[2].timestamp = 1

\* C15: after every step that writes the store, each record's totalViews is the number of "view"
\* entries of its log and its totalDownloads the number of "download"
\* entries; totalDownloads changes only by POST /api/log-download for the
\* record, by one, and totalViews only by a viewer request answered for the
\* record, by one: track-page, track-session and GET /download change
\* neither.
CountersMatchLog ==
  [][trackingData' # trackingData =>
     /\ \A i \in DOMAIN trackingData' :
          /\ trackingData'[i].totalViews
               = CountAction(trackingData'[i].accessLogs, "view")
          /\ trackingData'[i].totalDownloads
               = CountAction(trackingData'[i].accessLogs, "download")
     /\ \A i \in DOMAIN trackingData :
          LET trackingId == trackingData[i].trackingId
              before == trackingData[i]
          IN Has(trackingData', trackingId)
             => LET after == Lookup(trackingData', trackingId)
                IN /\ after.totalDownloads # before.totalDownloads
                      => /\ Handled("log-download")
                         /\ req'.trackingId = trackingId
                         /\ after.totalDownloads = before.totalDownloads + 1
                   /\ after.totalViews # before.totalViews
                      => /\ Handled("view")
                         /\ res'.status = 200
                         /\ res'.body.trackingId = trackingId
                         /\ after.totalViews = before.totalViews + 1]_vars

\* GET /download has just served the file of a record whose counters stand
\* at one visit and one logged download
DownloadServedUncounted ==
  /\ req.op = "download"
  /\ res.status = 200
  /\ LET record == Lookup(trackingData, req.trackingId)
     IN /\ record.totalViews = 1
        /\ record.totalDownloads = 1
        /\ Len(record.accessLogs) = 2

\* the tracking ids this step's request resolves to: the record a viewer
\* request or an upload was answered for, else the id the request names
Resolved ==
  IF req'.op \in {"view", "upload"}
  THEN IF res'.status = 200 THEN {res'.body.trackingId} ELSE {}
  ELSE IF "trackingId" \in DOMAIN req' THEN {req'.trackingId} ELSE {}

\* C16: a step changes at most the record its request resolves to: every
\* other record stays in the store as it was and no other record appears;
\* files are stored only by an upload and removed only by a DELETE; and
\* nothing at all changes, in the store or among the files, by log-download,
\* track-page or track-session for an id that is not stored, by a viewer
\* request for a short id no record has, or by any GET of stats, get-pdf or
\* download.
OnlyResolvedRecordChanges ==
  [][/\ trackingData' # trackingData
        => /\ \A i \in DOMAIN trackingData :
                trackingData[i].trackingId \notin Resolved
                => /\ Has(trackingData', trackingData[i].trackingId)
                   /\ Lookup(trackingData', trackingData[i].trackingId)
                        = trackingData[i]
           /\ \A j \in DOMAIN trackingData' :
                trackingData'[j].trackingId \notin Resolved
                => Has(trackingData, trackingData'[j].trackingId)
     /\ uploads' # uploads => req'.op \in {"upload", "delete"}
     /\ (\/ /\ req'.op \in {"log-download", "track-page", "track-session"}
            /\ ~Has(trackingData, req'.trackingId)
         \/ /\ req'.op = "view"
            /\ \A i \in DOMAIN trackingData :
                 trackingData[i].shortId # req'.shortId
         \/ req'.op \in {"stats", "stats-all", "get-pdf", "download"})
        => /\ trackingData' = trackingData
           /\ uploads' = uploads]_vars

\* a second download was logged for one record while the record stored
\* beside it is still as its upload left it
LoggedBesideUntouched ==
  /\ req.op = "log-download"
  /\ Len(trackingData) = 2
  /\ Has(trackingData, req.trackingId)
  /\ Lookup(trackingData, req.trackingId).totalDownloads = 2
  /\ \E i \in DOMAIN trackingData :
       /\ trackingData[i].trackingId # req.trackingId
       /\ trackingData[i].accessLogs = <<>>
       /\ trackingData[i].totalDownloads = 0

=============================================================================
